---- MODULE Spec2Model ----
(***************************************************************************)
(* Model of the notebook "advantages-of-type-annotations": the two         *)
(* signature extractors (source-based and attribute-based) and the         *)
(* randomized type checker safe.                                           *)
(*                                                                         *)
(* One behaviour is one notebook session about one function f: the cell    *)
(* that applies the source-based signature to f, the cell that applies the *)
(* attribute-based signature to f, and then safe(f), one step per loop     *)
(* iteration.                                                              *)
(***************************************************************************)
EXTENDS Integers, Sequences, FiniteSets, TLC

\* How many integers (and half-steps, for floats) on each side of zero the
\* generators draw besides the two ends of their range.
MaxSample == 1

\* range(10000) in safe.
Trials == 10000

\* random.randint(-2**16, (2**16)-1) and random.uniform(-2**16, (2**16)-1).
RandLo == -(2^16)

RandHi == (2^16) - 1

(***************************************************************************)
(* Python values.  A value is a record [t, v]: t is the name of its type,  *)
(* v an integer that carries the value: the integer itself for int, 0 or 1 *)
(* for bool, the length for str, and twice the number for float (so the    *)
(* floats of the model are the multiples of 0.5).                          *)
(***************************************************************************)
IntVal(n) == [t |-> "int", v |-> n]

FloatVal(h) == [t |-> "float", v |-> h]

BoolVal(b) == [t |-> "bool", v |-> IF b THEN 1 ELSE 0]

StrVal(n) == [t |-> "str", v |-> n]

NoneVal == [t |-> "NoneType", v |-> 0]

\* A local variable that no statement has assigned yet.
Unbound == [t |-> "unbound", v |-> 0]

\* The outcome of evaluating an expression: a value, or a raised exception.
Ok(val) == [exc |-> "none", val |-> val]

Raise(e) == [exc |-> e, val |-> NoneVal]

IsNumber(x) == x.t \in {"int", "bool", "float"}

\* x + y
Add(x, y) ==
    IF x.t \in {"int", "bool"} /\ y.t \in {"int", "bool"} THEN Ok(IntVal(x.v + y.v))
    ELSE IF x.t = "float" /\ y.t = "float" THEN Ok(FloatVal(x.v + y.v))
    ELSE IF x.t = "float" /\ y.t \in {"int", "bool"} THEN Ok(FloatVal(x.v + 2 * y.v))
    ELSE IF x.t \in {"int", "bool"} /\ y.t = "float" THEN Ok(FloatVal(2 * x.v + y.v))
    ELSE IF x.t = "str" /\ y.t = "str" THEN Ok(StrVal(x.v + y.v))
    ELSE Raise("TypeError")

\* int(x): truncation towards zero for a float.
ToInt(x) ==
    IF x.t \in {"int", "bool"} THEN Ok(IntVal(x.v))
    ELSE IF x.t = "float"
         THEN Ok(IntVal(IF x.v >= 0 THEN x.v \div 2 ELSE -((-x.v) \div 2)))
    ELSE IF x.t = "str" THEN Raise("ValueError")
    ELSE Raise("TypeError")

(***************************************************************************)
(* Type descriptors.  The source-based extractor returns text (a str), the *)
(* attribute-based one the object the annotation evaluated to: a class,    *)
(* None, a NewType, or a subscripted generic of typing.                    *)
(***************************************************************************)
Class(n) == [kind |-> "class", id |-> n]

Text(s) == [kind |-> "str", id |-> s]

NoneObj == [kind |-> "None", id |-> "None"]

Generic(s) == [kind |-> "generic", id |-> s]

NewType(s) == [kind |-> "newtype", id |-> s]

\* The slots of a signature that was never returned.
NoSlot == [kind |-> "unset", id |-> ""]

\* Annotation nodes of the syntax tree; NoAnnotation is the None that the
\* tree holds where the declaration has no annotation.
Name(s) == [node |-> "Name", id |-> s]

ConstantNone == [node |-> "Constant", id |-> "None"]

Subscript(s) == [node |-> "Subscript", id |-> s]

NoAnnotation == [node |-> "None", id |-> ""]

\* The module's global names: the built-in classes, "Number = int" and
\* "UserName = NewType("UserName", str)".
Globals ==
    [n \in {"int", "float", "str", "bool", "Number", "UserName"} |->
        IF n = "Number" THEN Class("int")
        ELSE IF n = "UserName" THEN NewType(n)
        ELSE Class(n)]

\* The object an annotation evaluates to when the def statement runs.
EvalAnnotation(a) ==
    IF a.node = "Name" THEN Globals[a.id]
    ELSE IF a.node = "Constant" THEN NoneObj
    ELSE Generic(a.id)

Param(n, a) == [name |-> n, annotation |-> a]

Def(n, ps, r) == [name |-> n, params |-> ps, returns |-> r]

\* Functions the notebook defines.
repeat == Def("repeat", <<Param("si", Subscript("Tuple[str, int]"))>>, Name("str"))

confirm == Def("confirm", <<Param("s", Name("UserName"))>>, Name("bool"))

double == Def("double", <<Param("x", Name("Number"))>>, Name("Number"))

triple == Def("triple", <<Param("x", Name("int"))>>, Name("int"))

floor == Def("floor", <<Param("x", Name("float"))>>, Name("int"))

\* Further functions a user may hand to signature and safe.
Others ==
    { Def("scale", <<Param("x", Name("float"))>>, Name("float")),
      Def("inverse", <<Param("x", Name("int"))>>, Name("int")),
      Def("echo", <<Param("x", Name("str"))>>, Name("str")),
      Def("negate", <<Param("x", Name("bool"))>>, Name("bool")),
      Def("show", <<Param("x", Name("int"))>>, ConstantNone),
      Def("zero", <<>>, Name("int")),
      Def("add", <<Param("x", Name("int")), Param("y", Name("int"))>>, Name("int")),
      Def("within", <<Param("x", Name("int")), Param("y", Name("float"))>>, Name("bool")),
      Def("weigh", <<Param("x", NoAnnotation), Param("y", Name("float"))>>, Name("float")),
      Def("bare", <<Param("x", NoAnnotation)>>, NoAnnotation),
      Def("noreturn", <<Param("x", Name("int"))>>, NoAnnotation),
      Def("noparam", <<Param("x", NoAnnotation)>>, Name("int")) }

Functions == {repeat, confirm, double, triple, floor} \cup Others

\* (s, i) = si; return s * i.  No value of the model is a pair: unpacking a
\* number raises TypeError, unpacking a string of length 2 succeeds and then
\* s * i raises TypeError, a string of another length raises ValueError.
repeat_body(x) ==
    IF x.t = "str" /\ x.v # 2 THEN Raise("ValueError") ELSE Raise("TypeError")

\* return s == "Alice": a bool for every s; the string of length 5 stands for
\* "Alice".
confirm_body(x) == Ok(BoolVal(x.t = "str" /\ x.v = 5))

\* return x + x
double_body(x) == Add(x, x)

\* return x + x + x
triple_body(x) ==
    LET s == Add(x, x)
    IN  IF s.exc # "none" THEN s ELSE Add(s.val, x)

\* floor with "x >= 0" as its condition.
floor_body_ge(x) ==
    IF ~IsNumber(x) THEN Raise("TypeError")
    ELSE IF x.v >= 0 THEN ToInt(x) ELSE Ok(x)

\* return int(x) if x > 0 else x
floor_body(x) ==
    IF ~IsNumber(x) THEN Raise("TypeError")
    ELSE IF x.v > 0 THEN ToInt(x) ELSE Ok(x)

\* The body of function g applied to x.
Body(g, x) ==
    CASE g = "repeat" -> repeat_body(x)
      [] g = "confirm" -> confirm_body(x)
      [] g = "triple" -> triple_body(x)
      [] g \in {"double", "scale"} -> double_body(x)
      [] g = "floor" -> floor_body(x)
      [] g = "inverse" ->
            IF x.t \notin {"int", "bool"} THEN Raise("TypeError")
            ELSE IF x.v = 0 THEN Raise("ZeroDivisionError")
            ELSE Ok(IntVal(IF x.v = 1 THEN 1 ELSE IF x.v > 0 THEN 0 ELSE -1))
      [] g = "negate" -> Ok(BoolVal(x.v = 0))
      [] g = "show" -> Ok(NoneVal)
      [] g = "zero" -> Ok(IntVal(0))
      [] OTHER -> Ok(x)

\* f(x): a call with one positional argument.
Call(g, x) ==
    IF Len(g.params) # 1 THEN Raise("TypeError") ELSE Body(g.name, x)

(***************************************************************************)
(* The signature extractors.  Both are called signature in the notebook;   *)
(* the attribute-based one is defined later and is the one safe calls when *)
(* the cells are run in order (signature_def says which one the name       *)
(* signature is bound to when safe runs).                                  *)
(***************************************************************************)
Returned(tin, tout) == [exc |-> "none", type_in |-> tin, type_out |-> tout]

Failed(e) == [exc |-> e, type_in |-> NoSlot, type_out |-> NoSlot]

\* Not called yet.
Pending == [exc |-> "pending", type_in |-> NoSlot, type_out |-> NoSlot]

\* signature_ast that refuses a declaration without exactly one parameter.
signature_ast_single(g) ==
    IF Len(g.params) # 1 THEN Failed("IndexError")
    ELSE IF g.params[1].annotation.node # "Name" THEN Failed("AttributeError")
    ELSE IF g.returns.node # "Name" THEN Failed("AttributeError")
    ELSE Returned(Text(g.params[1].annotation.id), Text(g.returns.id))

\* Source-based: a.body[0].args.args[0].annotation.id and a.body[0].returns.id.
\* Only a Name node has the attribute id.
signature_ast(g) ==
    IF Len(g.params) = 0 THEN Failed("IndexError")
    ELSE IF g.params[1].annotation.node # "Name" THEN Failed("AttributeError")
    ELSE IF g.returns.node # "Name" THEN Failed("AttributeError")
    ELSE Returned(Text(g.params[1].annotation.id), Text(g.returns.id))

Item(k, val) == [key |-> k, value |-> val]

IsAnnotated(p) == p.annotation # NoAnnotation

\* f.__annotations__ as the sequence of its items: the annotated parameters
\* in declaration order, then 'return' when the declaration has one.
Annotations(g) ==
    LET ps == SelectSeq(g.params, IsAnnotated)
        items == [n \in 1..Len(ps) |-> Item(ps[n].name, EvalAnnotation(ps[n].annotation))]
    IN  IF g.returns = NoAnnotation THEN items
        ELSE Append(items, Item("return", EvalAnnotation(g.returns)))

IsInput(item) == item.key # "return"

\* Taking the last element, [-1], of the list.
PickLast(inputs) == inputs[Len(inputs)]

\* Which element of [a[k] for k in a if k != 'return'] is taken: [0].
Pick(inputs) == inputs[1]

\* signature that returns the names of the types (a[k].__name__).
signature_names(g) ==
    LET a == Annotations(g)
        inputs == SelectSeq(a, IsInput)
    IN  IF inputs = <<>> THEN Failed("IndexError")
        ELSE IF Len(a) = Len(inputs) THEN Failed("KeyError")
        ELSE Returned(Text(Pick(inputs).value.id), Text(a[Len(a)].value.id))

\* signature that reads the return type with a.get('return').
signature_get(g) ==
    LET a == Annotations(g)
        inputs == SelectSeq(a, IsInput)
    IN  IF inputs = <<>> THEN Failed("IndexError")
        ELSE IF Len(a) = Len(inputs) THEN Returned(Pick(inputs).value, NoneObj)
        ELSE Returned(Pick(inputs).value, a[Len(a)].value)

\* Attribute-based.
signature(g) ==
    LET a == Annotations(g)
        inputs == SelectSeq(a, IsInput)
    IN  IF inputs = <<>> THEN Failed("IndexError")
        ELSE IF Len(a) = Len(inputs) THEN Failed("KeyError")
        ELSE Returned(Pick(inputs).value, a[Len(a)].value)

(***************************************************************************)
(* safe.                                                                   *)
(***************************************************************************)
\* randint with 2**16 as its upper end.
RandIntWide == {IntVal(n) : n \in {RandLo, RandHi + 1} \cup (-MaxSample .. MaxSample)}

\* random.randint(a, b): any integer of a..b; the model draws the two ends
\* and the integers around zero.
RandInt == {IntVal(n) : n \in {RandLo, RandHi} \cup (-MaxSample .. MaxSample)}

\* random.uniform(a, b) = a + (b-a) * random(): a is drawn (random() = 0),
\* b is not; the model draws a, the last half-step below b and the half-steps
\* around zero.
Uniform == {FloatVal(h) : h \in {2 * RandLo, 2 * RandHi - 1} \cup (-MaxSample .. MaxSample)}

\* Generate with the two generators swapped.
GenerateSwapped(tin, old) ==
    IF tin = Class("int") THEN Uniform
    ELSE IF tin = Class("float") THEN RandInt
    ELSE {old}

\* Generate with issubclass(type_in, int) in place of "type_in is int".
GenerateSubclass(tin, old) ==
    IF tin \in {Class("int"), Class("bool")} THEN RandInt
    ELSE IF tin = Class("float") THEN Uniform
    ELSE {old}

\* Generate that compares the name of the type with 'int' and 'float'.
GenerateByName(tin, old) ==
    IF tin.id = "int" THEN RandInt
    ELSE IF tin.id = "float" THEN Uniform
    ELSE {old}

\* The two if statements that assign value_in: the values value_in may hold
\* after them, given the value it held before.
Generate(tin, old) ==
    IF tin = Class("int") THEN RandInt
    ELSE IF tin = Class("float") THEN Uniform
    ELSE {old}

\* isinstance(x, t): bool is a subclass of int; a second argument that is no
\* class (None, a str, a subscripted generic) raises TypeError.
isinstance(x, t) ==
    IF t.kind # "class" THEN Raise("TypeError")
    ELSE Ok(BoolVal(x.t = t.id \/ (x.t = "bool" /\ t.id = "int")))

\* Whether x is an instance of the type t (false when t is no class).
InstanceOf(x, t) ==
    t.kind = "class" /\ (x.t = t.id \/ (x.t = "bool" /\ t.id = "int"))

\* Whether a trial with input x is a good one: f is invoked with x, raises
\* nothing and returns an instance of the declared output type.
Good(g, x, tout) ==
    /\ x # Unbound
    /\ Call(g, x).exc = "none"
    /\ InstanceOf(Call(g, x).val, tout)

\* The try block without the assert statement.
AttemptUnchecked(g, x, tout, old_out) ==
    IF x = Unbound THEN [called |-> FALSE, passed |-> FALSE, out |-> old_out]
    ELSE LET r == Call(g, x)
         IN  IF r.exc # "none" THEN [called |-> TRUE, passed |-> FALSE, out |-> old_out]
             ELSE [called |-> TRUE, passed |-> TRUE, out |-> r.val]

\* The try block of one trial: called tells whether f was invoked, passed
\* whether the block ended without an exception, out is value_out after it.
\* Reading value_in while it is unbound raises UnboundLocalError before the
\* call is made.
Attempt(g, x, tout, old_out) ==
    IF x = Unbound THEN [called |-> FALSE, passed |-> FALSE, out |-> old_out]
    ELSE LET r == Call(g, x)
         IN  IF r.exc # "none" THEN [called |-> TRUE, passed |-> FALSE, out |-> old_out]
             ELSE LET c == isinstance(r.val, tout)
                  IN  [called |-> TRUE,
                       passed |-> c.exc = "none" /\ c.val = BoolVal(TRUE),
                       out |-> r.val]

\* A loop that notes a failed trial and goes on with the next one.
AfterTrialTally(passed) == "loop"

\* Where safe goes on after a trial: the next iteration, or "return False".
AfterTrial(passed) == IF passed THEN "loop" ELSE "returned"

VARIABLES
    f,          \* the function under test
    signature_def,  \* the definition the global name signature is bound to
    pc,         \* the cell or statement about to run
    ret_ast,    \* what signature(f) returned in the source-based cell
    ret_attr,   \* what signature(f) returned in the attribute-based cell
    type_in, type_out, i, value_in, value_out,   \* the locals of safe
    result,     \* what safe(f) returned: "True", "False", or "none" so far
    raised,     \* the exception that left safe(f), "none" if there is none
    calls,      \* how many times safe has invoked f
    passes,     \* how many good trials there were
    failed_at   \* the number (from 1) of the first trial that was not good, else 0

vars == <<f, signature_def, pc, ret_ast, ret_attr, type_in, type_out, i, value_in, value_out,
          result, raised, calls, passes, failed_at>>

safe_locals == <<type_in, type_out, i, value_in, value_out>>

\* The state before the cells about f run.
Start ==
    /\ f \in Functions
    /\ pc = "cell_ast"
    /\ ret_ast = Pending
    /\ ret_attr = Pending
    /\ type_in = NoSlot
    /\ type_out = NoSlot
    /\ i = 0
    /\ value_in = Unbound
    /\ value_out = Unbound
    /\ result = "none"
    /\ raised = "none"
    /\ calls = 0
    /\ passes = 0
    /\ failed_at = 0

\* The notebook run from top to bottom: when safe is called, signature is the
\* attribute-based definition, the later of the two.
Init == signature_def = "attribute" /\ Start

\* A session in which safe may also find the source-based definition bound
\* to signature (its cell was the last of the two to be run).
InitEither == signature_def \in {"source", "attribute"} /\ Start

\* The cell that applies the source-based signature to f.
CellAst ==
    /\ pc = "cell_ast"
    /\ ret_ast' = signature_ast(f)
    /\ pc' = "cell_attr"
    /\ UNCHANGED <<f, signature_def, ret_attr, safe_locals, result, raised, calls, passes, failed_at>>

\* The cell that applies the attribute-based signature to f.
CellAttr ==
    /\ pc = "cell_attr"
    /\ ret_attr' = signature(f)
    /\ pc' = "safe"
    /\ UNCHANGED <<f, signature_def, ret_ast, safe_locals, result, raised, calls, passes, failed_at>>

\* (type_in, type_out) = signature(f): outside the try block, so an exception
\* of signature leaves safe.
SafeSignature ==
    /\ pc = "safe"
    /\ LET s == IF signature_def = "source" THEN signature_ast(f) ELSE signature(f)
       IN  IF s.exc = "none"
           THEN /\ type_in' = s.type_in
                /\ type_out' = s.type_out
                /\ pc' = "loop"
                /\ raised' = raised
           ELSE /\ raised' = s.exc
                /\ pc' = "raised"
                /\ UNCHANGED <<type_in, type_out>>
    /\ UNCHANGED <<f, signature_def, ret_ast, ret_attr, i, value_in, value_out,
                   result, calls, passes, failed_at>>

\* One iteration of the for loop: generate, invoke, check.
SafeTrial ==
    /\ pc = "loop"
    /\ i < Trials
    /\ \E x \in Generate(type_in, value_in) :
          LET t == Attempt(f, x, type_out, value_out)
          IN  /\ value_in' = x
              /\ value_out' = t.out
              /\ calls' = IF t.called THEN calls + 1 ELSE calls
              /\ passes' = IF Good(f, x, type_out) THEN passes + 1 ELSE passes
              /\ pc' = AfterTrial(t.passed)
              /\ i' = IF pc' = "loop" THEN i + 1 ELSE i
              /\ result' = IF t.passed THEN result ELSE "False"
              /\ failed_at' = IF ~Good(f, x, type_out) /\ failed_at = 0
                              THEN i + 1 ELSE failed_at
    /\ UNCHANGED <<f, signature_def, ret_ast, ret_attr, type_in, type_out, raised>>

\* The loop is exhausted: return True.
SafeReturnTrue ==
    /\ pc = "loop"
    /\ i = Trials
    /\ result' = "True"
    /\ pc' = "returned"
    /\ UNCHANGED <<f, signature_def, ret_ast, ret_attr, safe_locals, raised, calls,
                   passes, failed_at>>

Next == CellAst \/ CellAttr \/ SafeSignature \/ SafeTrial \/ SafeReturnTrue

Spec == Init /\ [][Next]_vars

SpecEither == InitEither /\ [][Next]_vars

TypeOK ==
    /\ f \in Functions
    /\ signature_def \in {"source", "attribute"}
    /\ pc \in {"cell_ast", "cell_attr", "safe", "loop", "returned", "raised"}
    /\ i \in 0 .. Trials
    /\ result \in {"none", "True", "False"}
    /\ calls \in 0 .. Trials
    /\ passes \in 0 .. Trials
    /\ failed_at \in 0 .. Trials

(***************************************************************************)
(* What the claims speak about.                                            *)
(***************************************************************************)
\* safe(f) has ended, by a return or by an exception.
Ended == pc \in {"returned", "raised"}

\* The declared input and output type of a fully annotated one-parameter
\* function.
DeclaredIn(g) == EvalAnnotation(g.params[1].annotation)

DeclaredOut(g) == EvalAnnotation(g.returns)

\* Values of a type: what the generators draw and a value beyond their range
\* for int and float, some strings for str and for UserName, the two booleans.
Inhabitants(t) ==
    IF t = Class("int") THEN RandInt \cup {IntVal(RandHi + 1)}
    ELSE IF t = Class("float") THEN Uniform \cup {FloatVal(2 * RandHi)}
    ELSE IF t \in {Class("str"), NewType("UserName")} THEN {StrVal(0), StrVal(2), StrVal(5)}
    ELSE IF t = Class("bool") THEN {BoolVal(FALSE), BoolVal(TRUE)}
    ELSE {}

\* g returns a value of its declared output type for every input of its
\* declared input type, and raises no error.
Conforms(g) ==
    /\ Len(g.params) = 1
    /\ IsAnnotated(g.params[1])
    /\ g.returns # NoAnnotation
    /\ Inhabitants(DeclaredIn(g)) # {}
    /\ \A x \in Inhabitants(DeclaredIn(g)) : Good(g, x, DeclaredOut(g))

C2_FailFast ==
    failed_at > 0 =>
        /\ pc = "returned"
        /\ result = "False"
        /\ calls <= failed_at
        /\ passes = failed_at - 1
        /\ i = failed_at - 1

C2_FailedAtLaterTrial ==
    failed_at = 3 /\ calls = 3 /\ pc = "returned" /\ f.name = "inverse"

\* C3: safe returns True exactly when all Trials trials were good ones, and
\* then every one of them was carried out; while the loop runs, every trial
\* carried out so far was a good one.
C3_VerdictIsConjunction ==
    /\ pc = "loop" => (passes = i /\ calls = i /\ failed_at = 0)
    /\ pc = "returned" =>
          /\ result \in {"True", "False"}
          /\ result = "True" <=> passes = Trials
          /\ result = "True" => (calls = Trials /\ i = Trials /\ failed_at = 0)
          /\ result = "False" => (failed_at > 0 /\ passes < Trials)

C3_AllTrialsGood ==
    f = double /\ pc = "returned" /\ result = "True" /\ passes = Trials

\* C4 as stated: no exception ever leaves safe, whatever function it is given.
C4_NothingPropagates ==
    raised = "none" /\ pc # "raised"

\* C5: in safe(floor) every trial whose input is <= 0 gets a float back and
\* makes safe return False, and the loop goes on only after an input > 0; so
\* safe(floor) returns True only if every generated input was > 0.
C5_FloorFailsOnNonPositive ==
    (f = floor /\ value_in # Unbound) =>
        /\ value_in.t = "float"
        /\ value_in.v <= 0 =>
              (value_out = value_in /\ pc = "returned" /\ result = "False")
        /\ value_in.v > 0 =>
              (value_out.t = "int" /\ failed_at = 0 /\ result # "False")
        /\ (pc = "loop" \/ result = "True") => value_in.v > 0

C5_FloorFailedAfterPositives ==
    f = floor /\ failed_at = 3 /\ value_in.v <= 0 /\ result = "False"

\* Both annotations of g are written with the alias Number.
Aliased(g) ==
    /\ Len(g.params) = 1
    /\ g.params[1].annotation = Name("Number")
    /\ g.returns = Name("Number")

\* C6: on a one-parameter declaration annotated with the alias Number = int
\* (double), the source-based signature returns the alias's name at both
\* slots and the attribute-based one the class int at both slots, never the
\* alias name: the two results differ.
C6_AliasNameVersusType ==
    Aliased(f) =>
        /\ ret_ast \in {Pending, Returned(Text("Number"), Text("Number"))}
        /\ ret_attr \in {Pending, Returned(Class("int"), Class("int"))}
        /\ pc \notin {"cell_ast", "cell_attr"} =>
              /\ ret_ast.exc = "none" /\ ret_attr.exc = "none"
              /\ ret_ast.type_in # ret_attr.type_in
              /\ ret_ast.type_out # ret_attr.type_out
              /\ "Number" \notin {ret_attr.type_in.id, ret_attr.type_out.id}

C6_DoubleExtractedTwice ==
    /\ f = double
    /\ ret_ast = Returned(Text("Number"), Text("Number"))
    /\ ret_attr = Returned(Class("int"), Class("int"))

\* Whether some parameter of g carries an annotation.
SomeAnnotated(g) == \E n \in 1 .. Len(g.params) : IsAnnotated(g.params[n])

\* C7 as stated: whenever f has zero or more than one declared parameter,
\* either extractor fails.
C7_FailsUnlessOneParameter ==
    Len(f.params) # 1 => (ret_ast.exc # "none" /\ ret_attr.exc # "none")

\* C7, amended: either extractor fails (IndexError) when f has no declared
\* parameter; more than one declared parameter does not make it fail: the
\* source-based one then returns the names of the first parameter's and the
\* return annotation when both are plain names, the attribute-based one
\* returns a pair when some parameter and the return value are annotated.
C7_FailsOnZeroParameters ==
    /\ (Len(f.params) = 0 /\ ret_ast # Pending) => ret_ast = Failed("IndexError")
    /\ (Len(f.params) = 0 /\ ret_attr # Pending) => ret_attr = Failed("IndexError")
    /\ (/\ Len(f.params) > 1 /\ ret_ast # Pending
        /\ f.params[1].annotation.node = "Name" /\ f.returns.node = "Name") =>
            ret_ast = Returned(Text(f.params[1].annotation.id), Text(f.returns.id))
    /\ (/\ Len(f.params) > 1 /\ ret_attr # Pending
        /\ SomeAnnotated(f) /\ f.returns # NoAnnotation) =>
            (ret_attr.exc = "none" /\ ret_attr.type_out = DeclaredOut(f))

C7_TwoParametersExtracted ==
    /\ Len(f.params) = 2
    /\ ret_ast = Returned(Text("int"), Text("int"))
    /\ ret_attr = Returned(Class("int"), Class("int"))

\* What the slots of a signature of g may hold: the text of an annotation of
\* g, or the object an annotation of g evaluates to.
SlotsOf(g) ==
    LET anns == {g.params[n].annotation : n \in 1 .. Len(g.params)} \cup {g.returns}
    IN  UNION {{Text(a.id), EvalAnnotation(a)} : a \in anns \ {NoAnnotation}}

\* C8: a signature that either extractor returns has both slots filled from
\* annotations of the declaration; when no parameter is annotated, or the
\* return value is not, the extractor fails and returns no pair.
C8_BothSlotsPopulated ==
    \A r \in {ret_ast, ret_attr} \ {Pending} :
        /\ r.exc = "none" => (r.type_in \in SlotsOf(f) /\ r.type_out \in SlotsOf(f))
        /\ r.exc # "none" => (r.type_in = NoSlot /\ r.type_out = NoSlot)
        /\ (~SomeAnnotated(f) \/ f.returns = NoAnnotation) => r.exc # "none"

C8_MissingReturnAnnotationFails ==
    /\ Len(f.params) = 1 /\ IsAnnotated(f.params[1]) /\ f.returns = NoAnnotation
    /\ ret_ast = Failed("AttributeError")
    /\ ret_attr = Failed("KeyError")

\* C9 as stated: every run of safe ends with a verdict, having invoked f at
\* most Trials times, and exactly Trials times when the verdict is True.
C9_EndsWithVerdict ==
    Ended =>
        /\ pc = "returned"
        /\ result \in {"True", "False"}
        /\ calls <= Trials
        /\ result = "True" => calls = Trials

\* C10: when the declared input type is neither int nor float, value_in is
\* never assigned, f is never invoked, and safe returns False in the first
\* trial, also for a function that conforms to its declared types.
C10_UnhandledInputType ==
    (pc \in {"loop", "returned"} /\ type_in \notin {Class("int"), Class("float")}) =>
        /\ value_in = Unbound
        /\ calls = 0
        /\ i = 0
        /\ pc = "returned" => (result = "False" /\ failed_at = 1)

C10_ConformingStrRejected ==
    /\ Conforms(f) /\ type_in = Class("str")
    /\ pc = "returned" /\ result = "False" /\ calls = 0 /\ value_in = Unbound

\* The annotated parameters of g, in declaration order.
AnnotatedParams(g) == SelectSeq(g.params, IsAnnotated)

\* C11: for a function with several annotated parameters (and an annotated
\* return value) the attribute-based signature does not fail: it returns the
\* type of the first annotated parameter, whatever the annotations of the
\* others, and the type of the 'return' entry.
C11_FirstAnnotatedParameter ==
    (/\ ret_attr # Pending
     /\ Len(AnnotatedParams(f)) > 1
     /\ f.returns # NoAnnotation) =>
        ret_attr = Returned(EvalAnnotation(AnnotatedParams(f)[1].annotation),
                            EvalAnnotation(f.returns))

C11_IntFloatParameters ==
    /\ Len(AnnotatedParams(f)) = 2
    /\ EvalAnnotation(AnnotatedParams(f)[2].annotation) = Class("float")
    /\ ret_attr = Returned(Class("int"), Class("bool"))

\* C12 as stated: a run of safe that returns True has generated 100 inputs
\* and invoked f exactly 100 times.
C12_HundredTrials ==
    (pc = "returned" /\ result = "True") => (calls = 100 /\ i = 100)

\* C13: every value safe passes to a function declared to take an int is an
\* int of -2^16 .. 2^16 - 1, and every trial draws anew: whatever the value of
\* the trial before, the next trial can draw either end of the range.  Every
\* value passed to a function declared to take a float is a float between
\* -2^16 and 2^16 - 1.  No other value is ever passed.
C13_GeneratedWithinRange ==
    /\ (type_in = Class("int") /\ value_in # Unbound) =>
          (value_in.t = "int" /\ RandLo <= value_in.v /\ value_in.v <= RandHi)
    /\ (type_in = Class("float") /\ value_in # Unbound) =>
          (value_in.t = "float" /\ 2 * RandLo <= value_in.v /\ value_in.v <= 2 * RandHi)
    /\ calls > 0 => (value_in # Unbound /\ type_in \in {Class("int"), Class("float")})
    /\ (pc = "loop" /\ i < Trials /\ type_in = Class("int")) =>
          /\ ENABLED (SafeTrial /\ value_in' = IntVal(RandLo))
          /\ ENABLED (SafeTrial /\ value_in' = IntVal(RandHi))

C13_BothEndsDrawn ==
    /\ type_in = Class("int")
    /\ value_in = IntVal(RandHi)
    /\ calls = 2
    /\ ENABLED (SafeTrial /\ value_in' = IntVal(RandLo))

\* C14: when safe consumes the source-based signature, whose slots are text,
\* neither generator is selected (value_in stays unbound, f is never
\* invoked), isinstance cannot be applied to type_out, and safe returns False
\* in the first trial, also for functions that conform to their declared
\* types; with the attribute-based signature such functions of int or float
\* get True.
C14_TextDescriptorsAlwaysFalse ==
    /\ (signature_def = "source" /\ pc \in {"loop", "returned"}) =>
          /\ type_in.kind = "str" /\ type_out.kind = "str"
          /\ value_in = Unbound
          /\ calls = 0
          /\ i = 0
          /\ result # "True"
          /\ isinstance(IntVal(0), type_out).exc = "TypeError"
          /\ pc = "returned" => (result = "False" /\ failed_at = 1)
    /\ (signature_def = "attribute" /\ pc = "returned" /\ Conforms(f)
        /\ DeclaredIn(f) \in {Class("int"), Class("float")}) => result = "True"

C14_TripleRejected ==
    /\ signature_def = "source"
    /\ f = triple /\ Conforms(f)
    /\ type_in = Text("int") /\ type_out = Text("int")
    /\ pc = "returned" /\ result = "False" /\ calls = 0

====
